---- MODULE Spec2Model ----
(***************************************************************************)
(* A model of server.js: the HTTP shim that reads and sets the "Render     *)
(* Delay" filter of a fixed list of OBS sources over one obs-websocket     *)
(* connection.  The state is the connection, the device's filter settings, *)
(* and the HTTP requests in flight with the promises each one awaits.      *)
(***************************************************************************)
EXTENDS Integers, Sequences, FiniteSets, TLC

(* ------------------------------ bounds --------------------------------- *)

\* Longest configured source list explored (a prefix of the list in the code).
MaxSources == 2

\* Number of HTTP requests that may be in flight at the same time.
MaxInFlight == 1

(* --------------------------- JavaScript values ------------------------- *)

\* A JavaScript value is a record [t, v]; a string is its sequence of characters.
Undefined == [t |-> "undefined", v |-> 0]
Null == [t |-> "null", v |-> 0]
NaN == [t |-> "NaN", v |-> 0]
Num(n) == [t |-> "number", v |-> n]
Str(cs) == [t |-> "string", v |-> cs]

DigitChars == <<"0", "1", "2", "3", "4", "5", "6", "7", "8", "9">>

IsDigit(c) == \E d \in 1..10 : DigitChars[d] = c

DigitValue(c) == (CHOOSE d \in 1..10 : DigitChars[d] = c) - 1

RECURSIVE DigitsValue(_, _)
\* The value of a sequence of decimal digits, most significant first.
DigitsValue(cs, acc) ==
    IF cs = <<>> THEN acc
    ELSE DigitsValue(Tail(cs), acc * 10 + DigitValue(Head(cs)))

AllDigits(cs) == cs # <<>> /\ \A k \in 1..Len(cs) : IsDigit(cs[k])

\* Number(string) for strings of an optional sign and decimal digits:
\* the empty string is 0, anything that is not a numeral is NaN.
StringToNumber(cs) ==
    IF cs = <<>> THEN Num(0)
    ELSE IF AllDigits(cs) THEN Num(DigitsValue(cs, 0))
    ELSE IF Head(cs) = "-" /\ AllDigits(Tail(cs)) THEN Num(0 - DigitsValue(Tail(cs), 0))
    ELSE IF Head(cs) = "+" /\ AllDigits(Tail(cs)) THEN Num(DigitsValue(Tail(cs), 0))
    ELSE NaN

\* Number(v)
ToNumber(v) ==
    CASE v.t = "number" -> v
      [] v.t = "string" -> StringToNumber(v.v)
      [] v.t = "null" -> Num(0)
      [] OTHER -> NaN

RECURSIVE NatToChars(_)
NatToChars(n) ==
    IF n < 10 THEN <<DigitChars[n + 1]>>
    ELSE NatToChars(n \div 10) \o <<DigitChars[(n % 10) + 1]>>

\* `${v}` in a template literal
ToChars(v) ==
    CASE v.t = "number" -> IF v.v < 0 THEN <<"-">> \o NatToChars(0 - v.v) ELSE NatToChars(v.v)
      [] v.t = "string" -> v.v
      [] v.t = "null" -> <<"n", "u", "l", "l">>
      [] v.t = "NaN" -> <<"N", "a", "N">>
      [] OTHER -> <<"u", "n", "d", "e", "f", "i", "n", "e", "d">>

\* !!v
Truthy(v) ==
    CASE v.t = "number" -> v.v # 0
      [] v.t = "string" -> v.v # <<>>
      [] OTHER -> FALSE

\* v >= 0
GeZero(v) ==
    LET n == ToNumber(v) IN n.t = "number" /\ n.v >= 0

(* ----------------------------- configuration --------------------------- *)

FILTER_NAME == <<"R", "e", "n", "d", "e", "r", " ", "D", "e", "l", "a", "y">>

SourceName(d) == <<"0", d, " ", "i", "n", "p", "u", "t">>

\* The configured list of the code.
AllCameraSources ==
    <<SourceName("1"), SourceName("2"), SourceName("3"), SourceName("4"),
      SourceName("5"), SourceName("6"), SourceName("7"), SourceName("8")>>

\* A source name that is not configured, and that the device does not have.
OtherSource == <<"9", "9", " ", "i", "n", "p", "u", "t">>

\* The sources of the device.
DeviceSources == {AllCameraSources[k] : k \in 1..Len(AllCameraSources)}

(* -------------------------------- state -------------------------------- *)

VARIABLES
    cameraSources,  \* the configured, ordered source list (fixed after start)
    conn,           \* the obs-websocket connection: connecting, connected, failed
    device,         \* the device's delay_ms of the Render Delay filter, per source
    reqs            \* the HTTP requests, one per connection slot

vars == <<cameraSources, conn, device, reqs>>

Slots == 1..MaxInFlight

\* A slot no request has used yet.  A request holds its route, the two body
\* fields of a mutation, the GetSourceFilter calls of a list request with the
\* promises of the map callbacks and the order they settled in, the
\* SetSourceFilterSettings calls of a mutation, and the responses sent.
IdleReq ==
    [route |-> "idle", cameraName |-> Undefined, delay |-> Undefined,
     calls |-> <<>>, promises |-> <<>>, order |-> <<>>, setCalls |-> <<>>, res |-> <<>>]

\* A request that has been answered leaves its slot to the next one.
Free(r) == reqs[r].route = "idle" \/ reqs[r].res # <<>>

PendingPromise == [state |-> "pending", value |-> <<>>]

PendingCall == [state |-> "pending", resp |-> Undefined]

(* ------------------------ fetchCameraDelays ---------------------------- *)

\* The map callback reading resp.delay_ms, which the response does not hold.
MapCallback_wrongField(cameraName, call) ==
    IF call.state = "fulfilled"
    THEN [state |-> "fulfilled",
          value |-> <<[cameraName |-> cameraName, delay |-> Undefined]>>]
    ELSE [state |-> "fulfilled",
          value |-> <<[cameraName |-> cameraName, delay |-> Num(-1)]>>]

\* The map callback without its try/catch: a failed call rejects the promise.
MapCallback_nocatch(cameraName, call) ==
    IF call.state = "fulfilled"
    THEN [state |-> "fulfilled",
          value |-> <<[cameraName |-> cameraName, delay |-> call.resp]>>]
    ELSE [state |-> "rejected", value |-> <<>>]

\* The callback of cameraSources.map: the promise it returns once obs.call
\* has settled.  A fulfilled call yields the device's delay_ms, a rejected one
\* is caught and yields the sentinel -1.
MapCallback(cameraName, call) ==
    IF call.state = "fulfilled"
    THEN [state |-> "fulfilled",
          value |-> <<[cameraName |-> cameraName, delay |-> call.resp]>>]
    ELSE [state |-> "fulfilled",
          value |-> <<[cameraName |-> cameraName, delay |-> Num(-1)]>>]

\* Promise.race in the place of Promise.all: settled as soon as one promise is.
PromiseAll_race(ps) ==
    IF ps = <<>> THEN [state |-> "fulfilled", value |-> <<>>]
    ELSE IF \E k \in 1..Len(ps) : ps[k].state = "fulfilled"
    THEN [state |-> "fulfilled",
          value |-> <<ps[CHOOSE k \in 1..Len(ps) : ps[k].state = "fulfilled"].value[1]>>]
    ELSE [state |-> "pending", value |-> <<>>]

\* Promise.all: rejected as soon as one promise is, fulfilled once all are,
\* with the values in the order of the promises.
PromiseAll(ps) ==
    IF \E k \in 1..Len(ps) : ps[k].state = "rejected"
    THEN [state |-> "rejected", value |-> <<>>]
    ELSE IF \A k \in 1..Len(ps) : ps[k].state = "fulfilled"
    THEN [state |-> "fulfilled", value |-> [k \in 1..Len(ps) |-> ps[k].value[1]]]
    ELSE [state |-> "pending", value |-> <<>>]

\* fetchCameraDelays collecting the readings as they arrive.
fetchCameraDelays_completionOrder(req) ==
    PromiseAll([k \in 1..Len(req.order) |-> req.promises[req.order[k]]])

\* The promise fetchCameraDelays returned to the handler of request req.
fetchCameraDelays(req) == PromiseAll(req.promises)

\* The start of fetchCameraDelays: one obs.call per configured source, all
\* issued before any settles.
StartFetch(route) ==
    [IdleReq EXCEPT !.route = route,
                    !.calls = [k \in 1..Len(cameraSources) |-> PendingCall],
                    !.promises = [k \in 1..Len(cameraSources) |-> PendingPromise]]

(* ----------------------------- list view ------------------------------- *)

ErrorText == <<"(", "E", "r", "r", "o", "r", ")">>

\* buildCameraCell: the heading, the displayed delay, and the form's hidden
\* name and pre-filled value.
buildCameraCell(cam) ==
    [h3 |-> cam.cameraName,
     displayDelay |-> IF GeZero(cam.delay)
                      THEN ToChars(cam.delay) \o <<" ", "m", "s">>
                      ELSE ErrorText,
     hidden |-> cam.cameraName,
     value |-> IF GeZero(cam.delay) THEN ToChars(cam.delay) ELSE ToChars(Num(0))]

\* The column test with < in the place of <=: the last reading is not shown.
Column_offByOne(cameraDelays, i) ==
    IF i + 1 < Len(cameraDelays) THEN <<buildCameraCell(cameraDelays[i + 1])>> ELSE <<>>

\* cam ? buildCameraCell(cam) : "" for cam = cameraDelays[i] (0-based i);
\* an index past the end reads undefined and gives the empty column.
Column(cameraDelays, i) ==
    IF i + 1 <= Len(cameraDelays) THEN <<buildCameraCell(cameraDelays[i + 1])>> ELSE <<>>

RECURSIVE TableRows(_, _)
\* for (let i = 0; i < cameraDelays.length; i += 2) tableRows += <tr>...</tr>
TableRows(cameraDelays, i) ==
    IF i < Len(cameraDelays)
    THEN <<[col1 |-> Column(cameraDelays, i), col2 |-> Column(cameraDelays, i + 1)]>>
         \o TableRows(cameraDelays, i + 2)
    ELSE <<>>

(* --------------------------- mutation routes --------------------------- *)

\* The values a request body gives cameraName: absent, empty, a configured
\* source, a source that is not configured.
NameInputs == {Undefined, Str(<<>>), Str(AllCameraSources[1]), Str(OtherSource)}

\* The values a request body gives delay / newDelay: absent, an empty form
\* field, a numeral as a string, a JSON number.
DelayInputs == {Undefined, Str(<<>>), Str(<<"7">>), Num(-1)}

\* The presence check without its second half.
MissingField_nameOnly(cameraName, delay) == ~Truthy(cameraName)

\* if (!cameraName || delay === undefined)
MissingField(cameraName, delay) == ~Truthy(cameraName) \/ delay = Undefined

\* setRenderDelay refusing negative delays by clamping them to 0.
setRenderDelay_clamped(cameraName, delayMs) ==
    [sourceName |-> cameraName, filterName |-> FILTER_NAME,
     delay_ms |-> IF delayMs.t = "number" /\ delayMs.v < 0 THEN Num(0) ELSE delayMs,
     state |-> "pending"]

\* setRenderDelay: the SetSourceFilterSettings call it issues.
setRenderDelay(cameraName, delayMs) ==
    [sourceName |-> cameraName, filterName |-> FILTER_NAME,
     delay_ms |-> delayMs, state |-> "pending"]

\* The body of a mutation handler up to its first response or await.
StartUpdate(route, cameraName, delay) ==
    IF MissingField(cameraName, delay)
    THEN [IdleReq EXCEPT !.route = route, !.cameraName = cameraName, !.delay = delay,
                         !.res = <<[status |-> 400,
                                    kind |-> IF route = "POST /api/cameras" THEN "json" ELSE "text",
                                    body |-> <<>>]>>]
    ELSE [IdleReq EXCEPT !.route = route, !.cameraName = cameraName, !.delay = delay,
                         !.setCalls = <<setRenderDelay(cameraName, ToNumber(delay))>>]

\* A mutation handler that answers a failed write like a successful one.
UpdateResponse_swallow(req, outcome) ==
    IF req.route = "POST /api/cameras"
    THEN [status |-> 200, kind |-> "json",
          body |-> [success |-> TRUE, cameraName |-> req.cameraName, delay |-> req.delay]]
    ELSE [status |-> 302, kind |-> "redirect", body |-> <<"/">>]

\* The response of a mutation handler once setRenderDelay has settled.
UpdateResponse(req, outcome) ==
    IF outcome = "fulfilled"
    THEN IF req.route = "POST /api/cameras"
         THEN [status |-> 200, kind |-> "json",
               body |-> [success |-> TRUE, cameraName |-> req.cameraName, delay |-> req.delay]]
         ELSE [status |-> 302, kind |-> "redirect", body |-> <<"/">>]
    ELSE [status |-> 500,
          kind |-> IF req.route = "POST /api/cameras" THEN "json" ELSE "text",
          body |-> <<>>]

\* The handler resumes after await setRenderDelay(...) with the call's outcome.
ResumeUpdate(req, outcome) ==
    [req EXCEPT !.setCalls[1].state = outcome,
                !.res = Append(@, UpdateResponse(req, outcome))]

(* ------------------------------ actions -------------------------------- *)

Init ==
    /\ \E n \in 0..MaxSources : cameraSources = SubSeq(AllCameraSources, 1, n)
    /\ conn = "connecting"
    /\ device = [s \in DeviceSources |->
                    Num(10 * (CHOOSE k \in 1..Len(AllCameraSources) : AllCameraSources[k] = s))]
    /\ reqs = [r \in Slots |-> IdleReq]

\* obs.connect(...).then: the connection is established.
ConnectOk ==
    /\ conn = "connecting"
    /\ conn' = "connected"
    /\ UNCHANGED <<cameraSources, device, reqs>>

\* obs.connect(...).catch: the failure is logged, nothing else happens.
ConnectFail ==
    /\ conn = "connecting"
    /\ conn' = "failed"
    /\ UNCHANGED <<cameraSources, device, reqs>>

\* GET / arrives: the handler runs up to its await.
GetRoot(r) ==
    /\ Free(r)
    /\ reqs' = [reqs EXCEPT ![r] = StartFetch("GET /")]
    /\ UNCHANGED <<cameraSources, conn, device>>

\* GET /api/cameras arrives: the handler runs up to its await.
GetApiCameras(r) ==
    /\ Free(r)
    /\ reqs' = [reqs EXCEPT ![r] = StartFetch("GET /api/cameras")]
    /\ UNCHANGED <<cameraSources, conn, device>>

\* The map callback of source i resumes with the settled call.
SettleCall(r, i, call) ==
    [reqs EXCEPT ![r].calls[i] = call,
                 ![r].promises[i] = MapCallback(cameraSources[i], call),
                 ![r].order = Append(@, i)]

\* The device answers GetSourceFilter for source i of request r.
GetSourceFilterOk(r, i) ==
    /\ conn = "connected"
    /\ i \in 1..Len(reqs[r].calls)
    /\ reqs[r].calls[i].state = "pending"
    /\ reqs' = SettleCall(r, i, [state |-> "fulfilled", resp |-> device[cameraSources[i]]])
    /\ UNCHANGED <<cameraSources, conn, device>>

\* GetSourceFilter for source i of request r fails: no connection, no such
\* source or filter, or a transport error.
GetSourceFilterFail(r, i) ==
    /\ i \in 1..Len(reqs[r].calls)
    /\ reqs[r].calls[i].state = "pending"
    /\ reqs' = SettleCall(r, i, [state |-> "rejected", resp |-> Undefined])
    /\ UNCHANGED <<cameraSources, conn, device>>

\* The response of GET / once fetchCameraDelays has settled.
RootResponse(all) ==
    IF all.state = "fulfilled"
    THEN [status |-> 200, kind |-> "html", body |-> TableRows(all.value, 0)]
    ELSE [status |-> 500, kind |-> "text", body |-> <<>>]

\* GET /api/cameras treating a sentinel reading as a failure of the request.
ApiCamerasResponse_strict(all) ==
    IF all.state = "fulfilled" /\ \A k \in 1..Len(all.value) : all.value[k].delay # Num(-1)
    THEN [status |-> 200, kind |-> "json", body |-> all.value]
    ELSE [status |-> 500, kind |-> "json", body |-> <<>>]

\* The response of GET /api/cameras once fetchCameraDelays has settled.
ApiCamerasResponse(all) ==
    IF all.state = "fulfilled"
    THEN [status |-> 200, kind |-> "json", body |-> all.value]
    ELSE [status |-> 500, kind |-> "json", body |-> <<>>]

\* The handler sends its response and returns; the order its calls settled
\* in is of no further interest.
Respond(req, response) ==
    [req EXCEPT !.order = <<>>, !.res = Append(@, response)]

\* The handler of GET / resumes after await fetchCameraDelays().
GetRootResume(r) ==
    /\ reqs[r].route = "GET /"
    /\ reqs[r].res = <<>>
    /\ fetchCameraDelays(reqs[r]).state # "pending"
    /\ reqs' = [reqs EXCEPT ![r] = Respond(@, RootResponse(fetchCameraDelays(@)))]
    /\ UNCHANGED <<cameraSources, conn, device>>

\* The handler of GET /api/cameras resumes after await fetchCameraDelays().
GetApiCamerasResume(r) ==
    /\ reqs[r].route = "GET /api/cameras"
    /\ reqs[r].res = <<>>
    /\ fetchCameraDelays(reqs[r]).state # "pending"
    /\ reqs' = [reqs EXCEPT ![r] = Respond(@, ApiCamerasResponse(fetchCameraDelays(@)))]
    /\ UNCHANGED <<cameraSources, conn, device>>

\* POST /api/cameras arrives with body {cameraName, delay}.
PostApiCameras(r, cameraName, delay) ==
    /\ Free(r)
    /\ reqs' = [reqs EXCEPT ![r] = StartUpdate("POST /api/cameras", cameraName, delay)]
    /\ UNCHANGED <<cameraSources, conn, device>>

\* POST /update-delay arrives with form fields {cameraName, newDelay}.
PostUpdateDelay(r, cameraName, newDelay) ==
    /\ Free(r)
    /\ reqs' = [reqs EXCEPT ![r] = StartUpdate("POST /update-delay", cameraName, newDelay)]
    /\ UNCHANGED <<cameraSources, conn, device>>

\* The device applies and acknowledges the SetSourceFilterSettings of request r.
SetSourceFilterSettingsOk(r) ==
    /\ conn = "connected"
    /\ reqs[r].setCalls # <<>>
    /\ reqs[r].setCalls[1].state = "pending"
    /\ reqs[r].setCalls[1].sourceName.v \in DeviceSources
    /\ device' = [device EXCEPT ![reqs[r].setCalls[1].sourceName.v] = reqs[r].setCalls[1].delay_ms]
    /\ reqs' = [reqs EXCEPT ![r] = ResumeUpdate(@, "fulfilled")]
    /\ UNCHANGED <<cameraSources, conn>>

\* The SetSourceFilterSettings of request r fails.
SetSourceFilterSettingsFail(r) ==
    /\ reqs[r].setCalls # <<>>
    /\ reqs[r].setCalls[1].state = "pending"
    /\ reqs' = [reqs EXCEPT ![r] = ResumeUpdate(@, "rejected")]
    /\ UNCHANGED <<cameraSources, conn, device>>

\* The connection and the two list routes.
ListNext ==
    \/ ConnectOk
    \/ ConnectFail
    \/ \E r \in Slots : GetRoot(r)
    \/ \E r \in Slots : GetApiCameras(r)
    \/ \E r \in Slots : \E i \in 1..MaxSources : GetSourceFilterOk(r, i)
    \/ \E r \in Slots : \E i \in 1..MaxSources : GetSourceFilterFail(r, i)
    \/ \E r \in Slots : GetRootResume(r)
    \/ \E r \in Slots : GetApiCamerasResume(r)

\* The two mutation routes.
UpdateNext ==
    \/ \E r \in Slots : \E n \in NameInputs : \E d \in DelayInputs : PostApiCameras(r, n, d)
    \/ \E r \in Slots : \E n \in NameInputs : \E d \in DelayInputs : PostUpdateDelay(r, n, d)
    \/ \E r \in Slots : SetSourceFilterSettingsOk(r)
    \/ \E r \in Slots : SetSourceFilterSettingsFail(r)

Next == ListNext \/ UpdateNext

Spec == Init /\ [][Next]_vars

\* The list routes alone, which no mutation request can delay, with the event
\* loop's guarantee: a handler whose awaited promise has settled is resumed.
\* Nothing makes the device answer a call, so no fairness is stated for that.
FairListSpec ==
    /\ Init
    /\ [][ListNext]_vars
    /\ \A r \in Slots : WF_vars(GetRootResume(r)) /\ WF_vars(GetApiCamerasResume(r))

(* ------------------------------ properties ----------------------------- *)

IsList(req) == req.route \in {"GET /", "GET /api/cameras"}

IsUpdate(req) == req.route \in {"POST /api/cameras", "POST /update-delay"}

\* Every GetSourceFilter call of the request has succeeded or failed.
AllSettled(req) == \A i \in 1..Len(req.calls) : req.calls[i].state # "pending"

Sentinel == Num(-1)

\* C1: once the N reads of a list request have all settled, in whatever order
\* and with whatever failures, fetchCameraDelays is fulfilled with exactly N
\* readings, and reading i carries the name of configured source i; the
\* structured view sends exactly that list.
C1_ConfiguredOrder ==
    \A r \in Slots :
        IsList(reqs[r]) /\ AllSettled(reqs[r]) =>
            LET all == fetchCameraDelays(reqs[r]) IN
            /\ all.state = "fulfilled"
            /\ Len(all.value) = Len(cameraSources)
            /\ \A i \in 1..Len(cameraSources) : all.value[i].cameraName = cameraSources[i]
            /\ (reqs[r].route = "GET /api/cameras" /\ reqs[r].res # <<>>) =>
                    reqs[r].res[1].body = all.value

\* Two reads that completed in the reverse of the configured order, one failed.
C1_Witness ==
    \E r \in Slots :
        /\ IsList(reqs[r]) /\ AllSettled(reqs[r])
        /\ reqs[r].order = <<2, 1>>
        /\ reqs[r].calls[2].state = "rejected"
        /\ reqs[r].calls[1].state = "fulfilled"

\* C2: fetchCameraDelays never rejects; a source whose read failed reads -1
\* and every other source reads the value the device returned for it.
C2_FailureIsolation ==
    \A r \in Slots :
        IsList(reqs[r]) =>
            LET all == fetchCameraDelays(reqs[r]) IN
            /\ all.state # "rejected"
            /\ AllSettled(reqs[r]) =>
                /\ all.state = "fulfilled"
                /\ \A i \in 1..Len(reqs[r].calls) :
                    /\ reqs[r].calls[i].state = "rejected" => all.value[i].delay = Sentinel
                    /\ reqs[r].calls[i].state = "fulfilled" =>
                            all.value[i].delay = reqs[r].calls[i].resp

\* A list request with one failed read and one read the device answered.
C2_Witness ==
    \E r \in Slots :
        /\ IsList(reqs[r]) /\ AllSettled(reqs[r])
        /\ \E i, j \in 1..Len(reqs[r].calls) :
            /\ reqs[r].calls[i].state = "rejected"
            /\ reqs[r].calls[j].state = "fulfilled"
            /\ fetchCameraDelays(reqs[r]).value[j].delay = device[cameraSources[j]]
            /\ device[cameraSources[j]] # Sentinel

\* C3: a mutation request in which cameraName or the value field is absent is
\* answered 400, once, and issues no SetSourceFilterSettings call.
C3_MissingFieldRejected ==
    \A r \in Slots :
        (IsUpdate(reqs[r]) /\ (reqs[r].cameraName = Undefined \/ reqs[r].delay = Undefined)) =>
            /\ reqs[r].setCalls = <<>>
            /\ Len(reqs[r].res) = 1
            /\ reqs[r].res[1].status = 400

\* A form update that names a source and lacks newDelay.
C3_Witness ==
    \E r \in Slots :
        /\ reqs[r].route = "POST /update-delay"
        /\ reqs[r].cameraName = Str(AllCameraSources[1])
        /\ reqs[r].delay = Undefined
        /\ reqs[r].res # <<>>

\* Both body fields of a mutation request are present.
BothPresent(req) == IsUpdate(req) /\ req.cameraName # Undefined /\ req.delay # Undefined

\* The call forwards the requested value: the value itself, or the number a
\* string value is the numeral of.
ForwardsValue(call, delay) ==
    \/ call.delay_ms = delay
    \/ delay.t = "string" /\ call.delay_ms.t = "number" /\ ToChars(call.delay_ms) = delay.v

\* C4 as stated: a mutation request with both fields present issues exactly
\* one SetSourceFilterSettings call, with the requested name and the requested
\* value unaltered.
C4_Original ==
    \A r \in Slots :
        BothPresent(reqs[r]) =>
            /\ Len(reqs[r].setCalls) = 1
            /\ reqs[r].setCalls[1].sourceName = reqs[r].cameraName
            /\ ForwardsValue(reqs[r].setCalls[1], reqs[r].delay)

\* C4 amended: a mutation request with a non-empty cameraName and the value
\* field present issues exactly one SetSourceFilterSettings call, for the
\* Render Delay filter of exactly that name, configured or not, with
\* Number(value) as delay_ms: a number or a numeral is forwarded as that number
\* whatever its sign, unclamped, and an empty string as 0.  A request whose
\* cameraName is the empty string is answered 400 and issues no call.
C4_ForwardedOnce ==
    \A r \in Slots :
        BothPresent(reqs[r]) =>
            IF reqs[r].cameraName = Str(<<>>)
            THEN /\ reqs[r].setCalls = <<>>
                 /\ Len(reqs[r].res) = 1
                 /\ reqs[r].res[1].status = 400
            ELSE /\ Len(reqs[r].setCalls) = 1
                 /\ reqs[r].setCalls[1].sourceName = reqs[r].cameraName
                 /\ reqs[r].setCalls[1].filterName = FILTER_NAME
                 /\ IF reqs[r].delay = Str(<<>>)
                    THEN reqs[r].setCalls[1].delay_ms = Num(0)
                    ELSE ForwardsValue(reqs[r].setCalls[1], reqs[r].delay)

\* A negative delay forwarded for a source that is not configured.
C4_Witness ==
    \E r \in Slots :
        /\ IsUpdate(reqs[r])
        /\ reqs[r].cameraName = Str(OtherSource)
        /\ reqs[r].delay = Num(-1)
        /\ Len(reqs[r].setCalls) = 1
        /\ reqs[r].setCalls[1].delay_ms = Num(-1)

\* C6 as stated: every delay of a successful read and every delay_ms of a
\* successful write is >= 0, and a reading of -1 means the read failed.
C6_SentinelDistinct ==
    \A r \in Slots :
        /\ \A i \in 1..Len(reqs[r].calls) :
            /\ reqs[r].calls[i].state = "fulfilled" =>
                   LET d == reqs[r].promises[i].value[1].delay IN d.t = "number" /\ d.v >= 0
            /\ (reqs[r].promises[i].state = "fulfilled"
                    /\ reqs[r].promises[i].value[1].delay = Sentinel) =>
                   reqs[r].calls[i].state = "rejected"
        /\ \A k \in 1..Len(reqs[r].setCalls) :
            reqs[r].setCalls[k].state = "fulfilled" =>
                reqs[r].setCalls[k].delay_ms.t = "number" /\ reqs[r].setCalls[k].delay_ms.v >= 0

\* The response a mutation request owes to the state of its write.
AnswersWrite(req) ==
    /\ Len(req.setCalls) = 1
    /\ req.setCalls[1].state = "pending" => req.res = <<>>
    /\ req.setCalls[1].state = "fulfilled" =>
        /\ Len(req.res) = 1
        /\ req.route = "POST /api/cameras" =>
            /\ req.res[1].status = 200
            /\ req.res[1].body = [success |-> TRUE, cameraName |-> req.cameraName, delay |-> req.delay]
        /\ req.route = "POST /update-delay" =>
            /\ req.res[1].status = 302
            /\ req.res[1].body = <<"/">>
    /\ req.setCalls[1].state = "rejected" =>
        /\ Len(req.res) = 1
        /\ req.res[1].status = 500

\* C8 as stated: every mutation request with both fields present gets exactly
\* one response, decided by the outcome of its one write.
C8_Original == \A r \in Slots : BothPresent(reqs[r]) => AnswersWrite(reqs[r])

\* C8 amended: every mutation request with a non-empty cameraName and the
\* value field present gets exactly one response, decided by the outcome of
\* its one write: 200 {success, cameraName, delay} echoing the request, or a
\* redirect to /, when the write succeeds, and 500 when it fails.
C8_ResponseFollowsWrite ==
    \A r \in Slots :
        (BothPresent(reqs[r]) /\ reqs[r].cameraName # Str(<<>>)) => AnswersWrite(reqs[r])

\* A successful structured update echoing the string it was sent.
C8_Witness ==
    \E r \in Slots :
        /\ reqs[r].route = "POST /api/cameras"
        /\ reqs[r].delay = Str(<<"7">>)
        /\ reqs[r].setCalls # <<>>
        /\ reqs[r].setCalls[1].state = "fulfilled"
        /\ reqs[r].res # <<>>
        /\ reqs[r].res[1].body.delay = Str(<<"7">>)

\* Every configured source with the sentinel, in configured order.
AllSentinel == [i \in 1..Len(cameraSources) |-> [cameraName |-> cameraSources[i], delay |-> Sentinel]]

\* C5: once the startup connection attempt has failed the connection stays
\* failed (no retry), and every GET /api/cameras that is answered is answered
\* once, with status 200 and the sentinel for every configured source.
C5_DegradedAfterConnectFail ==
    [][/\ conn = "failed" => conn' = "failed"
       /\ conn' = "failed" =>
            \A r \in Slots :
                (reqs'[r].route = "GET /api/cameras" /\ reqs'[r].res # <<>>) =>
                    /\ Len(reqs'[r].res) = 1
                    /\ reqs'[r].res[1].status = 200
                    /\ reqs'[r].res[1].body = AllSentinel']_vars

\* A structured list of two sources answered after the connection failed.
C5_Witness ==
    /\ conn = "failed"
    /\ \E r \in Slots :
        /\ reqs[r].route = "GET /api/cameras"
        /\ reqs[r].res # <<>>
        /\ reqs[r].res[1].status = 200
        /\ Len(reqs[r].res[1].body) = 2

\* The write of request r is acknowledged in this step.
WriteAcked(r) ==
    /\ reqs[r].setCalls # <<>>
    /\ reqs[r].setCalls[1].state = "pending"
    /\ reqs'[r].setCalls # <<>>
    /\ reqs'[r].setCalls[1].state = "fulfilled"

\* C7: the service holds no copy of a delay.  A read that succeeds reports the
\* device's delay_ms of that source at that moment; the device's delay_ms of a
\* source is the value of the last acknowledged write to it, and changes by
\* nothing else.  So after a successful update of a source to v, with no later
\* write to it, any read of it that succeeds reports v.
C7_RoundTrip ==
    [][/\ \A r \in Slots : \A i \in 1..Len(reqs[r].calls) :
            (reqs[r].calls[i].state = "pending" /\ reqs'[r].calls[i].state = "fulfilled") =>
                reqs'[r].promises[i].value[1] =
                    [cameraName |-> cameraSources[i], delay |-> device[cameraSources[i]]]
       /\ \A r \in Slots :
            WriteAcked(r) =>
                /\ device'[reqs[r].cameraName.v] = reqs[r].setCalls[1].delay_ms
                /\ IF reqs[r].delay = Str(<<>>)
                   THEN device'[reqs[r].cameraName.v] = Num(0)
                   ELSE ForwardsValue(reqs[r].setCalls[1], reqs[r].delay)
                /\ reqs'[r].res # <<>> /\ reqs'[r].res[1].status \in {200, 302}
       /\ \A s \in DeviceSources :
            device'[s] # device[s] =>
                \E r \in Slots : WriteAcked(r) /\ reqs[r].cameraName = Str(s)]_vars

\* A read of the first source reporting the 7 an update wrote to the device.
C7_Witness ==
    \E r \in Slots :
        /\ IsList(reqs[r])
        /\ reqs[r].calls # <<>>
        /\ reqs[r].calls[1].state = "fulfilled"
        /\ device[cameraSources[1]] = Num(7)
        /\ fetchCameraDelays(reqs[r]).state = "fulfilled"
        /\ fetchCameraDelays(reqs[r]).value[1].delay = Num(7)

\* C9: a list request is answered only when every one of its reads has
\* settled, so a read that never settles leaves it unanswered for ever; and
\* once they have all settled it is eventually answered.
C9_AnsweredWhenAllSettled ==
    /\ [](\A r \in Slots : (IsList(reqs[r]) /\ reqs[r].res # <<>>) => AllSettled(reqs[r]))
    /\ \A r \in Slots :
        (IsList(reqs[r]) /\ reqs[r].res = <<>> /\ AllSettled(reqs[r])) ~> (reqs[r].res # <<>>)

\* A list request of two sources answered after both reads settled.
C9_Witness ==
    \E r \in Slots :
        /\ IsList(reqs[r])
        /\ Len(reqs[r].calls) = 2
        /\ AllSettled(reqs[r])
        /\ Len(reqs[r].res) = 1

\* Column col shows reading cam: its name, "<n> ms" and n in the form for a
\* delay n >= 0, "(Error)" and 0 in the form for the sentinel.
ShowsReading(col, cam) ==
    /\ Len(col) = 1
    /\ col[1].h3 = cam.cameraName
    /\ col[1].hidden = cam.cameraName
    /\ (cam.delay.t = "number" /\ cam.delay.v >= 0) =>
        /\ StringToNumber(col[1].value) = cam.delay
        /\ col[1].displayDelay = col[1].value \o <<" ", "m", "s">>
    /\ cam.delay = Sentinel =>
        /\ col[1].displayDelay = ErrorText
        /\ col[1].value = <<"0">>

====
